---- MODULE Spec2Model ----
(***************************************************************************)
(* Model of data/components/animation.py: the Animation sprite (time       *)
(* driven interpolation of attributes of target objects) and the Task      *)
(* sprite (deferred, optionally looping callback).                         *)
(*                                                                         *)
(* Numbers.  Times (dt, duration, delay, interval) are integers, as the    *)
(* millisecond ticks of a pygame clock are.  Progress, eased progress and  *)
(* attribute values are exact rationals <<n, d>> with d > 0 in lowest      *)
(* terms, so that the value written at p = 1/2 is really 3/2 and not an    *)
(* integer.  Floating-point rounding error is not modelled.                *)
(*                                                                         *)
(* Exceptions.  A call that raises keeps the assignments made before the   *)
(* raise; the exception's name is recorded in ret.err.                     *)
(***************************************************************************)
EXTENDS Integers, Sequences, FiniteSets, TLC

VARIABLES
    PY2,     \* module constant PY2: which interpreter runs the module
    ani,     \* the Animation instance
    obj,     \* the target objects: obj[o] maps attribute names to values
    calls,   \* number of invocations of the Animation's callback so far
    ret,     \* the last call made on the Animation and its outcome
    snap,    \* the state right after the last start call (history)
    nStart,  \* number of start calls made so far
    started, \* the sprites start succeeded on since the last completion
    done,    \* TRUE once an update has taken the p >= 1 branch
    task,    \* the Task instance
    tcalls,  \* number of invocations of the Task's callback so far
    tret,    \* the last call made on the Task and its outcome
    tnew,    \* the call that constructed the Task, and its outcome
    poked,   \* the writes other code made to the objects (history)
    ease     \* one call of an easing function: its argument and its result

vars == <<PY2, ani, obj, calls, ret, snap, nStart, started, done,
          task, tcalls, tret, tnew, poked, ease>>
aniVars == <<PY2, ani, obj, calls, ret, snap, nStart, started, done, poked>>
taskVars == <<task, tcalls, tret, tnew>>

---------------------------------------------------------------------------
(* Bounds of the model. *)
MaxDuration == 2     \* durations 0..MaxDuration
MaxDelay == 2        \* delays 0..MaxDelay
MaxDt == 2           \* one update advances time by 0..MaxDt
MaxElapsed == 3      \* update is not called once _elapsed would exceed this
MaxStarts == 2       \* at most this many start calls
MaxInterval == 2     \* task intervals 0..MaxInterval
MaxLoops == 2        \* task loops -1..MaxLoops
MaxDelta == 3        \* one task update advances time by 0..MaxDelta
MaxTaskUpdates == 4  \* at most this many update calls on the task
MaxTimer == 4        \* SpecTaskLive: no update leaves _timer above this
MaxPokes == 1        \* SpecWrite: at most this many writes by other code

---------------------------------------------------------------------------
(* Exact rational arithmetic. *)
Abs(n) == IF n < 0 THEN -n ELSE n

RECURSIVE GCD(_, _)
GCD(a, b) == IF b = 0 THEN a ELSE GCD(b, a % b)

\* the rational n/d (d # 0) in lowest terms with a positive denominator
Norm(n, d) ==
    LET g == GCD(Abs(n), Abs(d))
        s == IF d < 0 THEN -1 ELSE 1
    IN <<(s * n) \div g, (s * d) \div g>>

Rat(n) == <<n, 1>>
Zero == Rat(0)
One == Rat(1)
RNeg(u) == <<-u[1], u[2]>>
RAdd(u, v) ==
    LET g == GCD(u[2], v[2])
    IN Norm(u[1] * (v[2] \div g) + v[1] * (u[2] \div g),
            (u[2] \div g) * v[2])
RSub(u, v) == RAdd(u, RNeg(v))
RMul(u, v) == Norm(u[1] * v[1], u[2] * v[2])
RDiv(u, v) == Norm(u[1] * v[2], u[2] * v[1])
RLess(u, v) == u[1] * v[2] < v[1] * u[2]
RGeq(u, v) == ~RLess(u, v)
RMin(u, v) == IF RLess(v, u) THEN v ELSE u

---------------------------------------------------------------------------
(* The objects an animation can be started on.  A has both attributes, B   *)
(* has no attribute y.                                                     *)
Objs == {"A", "B"}
ObjInit == [A |-> [x |-> Rat(0), y |-> Rat(1)], B |-> [x |-> Rat(2)]]

\* the keyword arguments left in self.props: attribute name -> end value
PropsChoices == {[x |-> 3], [x |-> 3, y |-> -2]}

Transitions == {"linear", "in_quad"}

\* self._targets = None.  start only ever builds a one-element list, so the
\* empty sequence is free to stand for None.
None == <<>>

\* ease before any easing function is called
NoEase == [name |-> "linear", progress |-> Zero, pc |-> "none",
           value |-> Zero]

\* ret: the call (op, dt, sprite), the exception it raised (err), the progress
\* it computed (p), whether it invoked the callback (fired), self._targets
\* when it was entered (pre), the (target, attribute) pairs it assigned
\* (wrote); seen is what the callback found when it was invoked
NoSeen == [_targets |-> None, alive |-> FALSE, obj |-> ObjInit]

NoRet == [op |-> "none", dt |-> 0, sprite |-> "A", err |-> "none",
          p |-> Zero, fired |-> FALSE, pre |-> None, wrote |-> {},
          sprites |-> {}, seen |-> NoSeen]

---------------------------------------------------------------------------
(* AnimationTransition *)

\* a decimal literal of the source: Dec(170158, 100000) is 1.70158
Dec(n, d) == Norm(n, d)
Half == Dec(5, 10)

\* a * b * c * ..., multiplied from the left as the source's expression is
RECURSIVE RProd(_)
RProd(fs) ==
    IF Len(fs) = 1 THEN fs[1]
    ELSE RMul(RProd(SubSeq(fs, 1, Len(fs) - 1)), fs[Len(fs)])

(* math.pi, math.sin, math.cos.  Every angle the module computes is a      *)
(* rational multiple of pi, so angles are kept in units of pi: pi is the   *)
(* unit, and sin and cos take their argument in that unit.  sin is exact   *)
(* at the multiples of pi/6 that have a rational sine; at the odd          *)
(* multiples of pi/18 next to a multiple of pi, where its value is         *)
(* irrational, it is sin(pi/18) cut to five decimals.  It is not defined   *)
(* elsewhere.                                                              *)
pi == One

Sin10 == Dec(17365, 100000)

sin(x) ==
    LET r == Norm(x[1] % (2 * x[2]), x[2])
    IN CASE r = Zero -> Zero
         [] r = Dec(1, 6) -> Half
         [] r = Dec(1, 2) -> One
         [] r = Dec(5, 6) -> Half
         [] r = One -> Zero
         [] r = Dec(7, 6) -> RNeg(Half)
         [] r = Dec(3, 2) -> RNeg(One)
         [] r = Dec(11, 6) -> RNeg(Half)
         [] r \in {Dec(1, 18), Dec(17, 18)} -> Sin10
         [] r \in {Dec(19, 18), Dec(35, 18)} -> RNeg(Sin10)

cos(x) == sin(RAdd(x, Half))

\* math.sqrt, defined where the root is rational
sqrt(x) ==
    LET root(n) == CHOOSE r \in 0..n : r * r = n
    IN <<root(x[1]), root(x[2])>>

\* pow(b, e) for an integer b and an integer-valued e
pow(b, e) ==
    CASE e[2] = 1 /\ e[1] >= 0 -> Rat(b ^ e[1])
      [] e[2] = 1 /\ e[1] < 0 -> Norm(1, b ^ (-e[1]))

linear(progress) == progress

in_quad(progress) == RMul(progress, progress)

out_quad(progress) ==
    RProd(<<Rat(-1), progress, RSub(progress, Rat(2))>>)

in_out_quad(progress) ==
    LET p == RMul(progress, Rat(2))
        p1 == RSub(p, One)
    IN IF RLess(p, One)
       THEN RProd(<<Half, p, p>>)
       ELSE RMul(RNeg(Half), RSub(RMul(p1, RSub(p1, Rat(2))), One))

in_cubic(progress) == RProd(<<progress, progress, progress>>)

out_cubic(progress) ==
    LET p == RSub(progress, One)
    IN RAdd(RProd(<<p, p, p>>), One)

in_out_cubic(progress) ==
    LET p == RMul(progress, Rat(2))
        p2 == RSub(p, Rat(2))
    IN IF RLess(p, One)
       THEN RProd(<<Half, p, p, p>>)
       ELSE RMul(Half, RAdd(RProd(<<p2, p2, p2>>), Rat(2)))

in_quart(progress) == RProd(<<progress, progress, progress, progress>>)

out_quart(progress) ==
    LET p == RSub(progress, One)
    IN RMul(Rat(-1), RSub(RProd(<<p, p, p, p>>), One))

in_out_quart(progress) ==
    LET p == RMul(progress, Rat(2))
        p2 == RSub(p, Rat(2))
    IN IF RLess(p, One)
       THEN RProd(<<Half, p, p, p, p>>)
       ELSE RMul(RNeg(Half), RSub(RProd(<<p2, p2, p2, p2>>), Rat(2)))

in_quint(progress) ==
    RProd(<<progress, progress, progress, progress, progress>>)

out_quint(progress) ==
    LET p == RSub(progress, One)
    IN RAdd(RProd(<<p, p, p, p, p>>), One)

in_out_quint(progress) ==
    LET p == RMul(progress, Rat(2))
        p2 == RSub(p, Rat(2))
    IN IF RLess(p, One)
       THEN RProd(<<Half, p, p, p, p, p>>)
       ELSE RMul(Half, RAdd(RProd(<<p2, p2, p2, p2, p2>>), Rat(2)))

in_sine(progress) ==
    RAdd(RMul(Rat(-1), cos(RMul(progress, RDiv(pi, Rat(2))))), One)

out_sine(progress) == sin(RMul(progress, RDiv(pi, Rat(2))))

in_out_sine(progress) ==
    RMul(RNeg(Half), RSub(cos(RMul(pi, progress)), One))

in_expo(progress) ==
    IF progress = Zero THEN Zero
    ELSE pow(2, RMul(Rat(10), RSub(progress, One)))

out_expo(progress) ==
    IF progress = One THEN One
    ELSE RAdd(RNeg(pow(2, RMul(Rat(-10), progress))), One)

in_out_expo(progress) ==
    LET p == RMul(progress, Rat(2))
        p1 == RSub(p, One)
    IN IF progress = Zero THEN Zero
       ELSE IF progress = One THEN One
       ELSE IF RLess(p, One)
       THEN RMul(Half, pow(2, RMul(Rat(10), RSub(p, One))))
       ELSE RMul(Half, RAdd(RNeg(pow(2, RMul(Rat(-10), p1))), Rat(2)))

in_circ(progress) ==
    RMul(Rat(-1), RSub(sqrt(RSub(One, RMul(progress, progress))), One))

out_circ(progress) ==
    LET p == RSub(progress, One)
    IN sqrt(RSub(One, RMul(p, p)))

in_out_circ(progress) ==
    LET p == RMul(progress, Rat(2))
        p2 == RSub(p, Rat(2))
    IN IF RLess(p, One)
       THEN RMul(RNeg(Half), RSub(sqrt(RSub(One, RMul(p, p))), One))
       ELSE RMul(Half, RAdd(sqrt(RSub(One, RMul(p2, p2))), One))

in_elastic(progress) ==
    LET p == Dec(3, 10)
        s == RDiv(p, Rat(4))
        q == progress
        q1 == RSub(q, One)
    IN IF q = One THEN One
       ELSE RNeg(RMul(pow(2, RMul(Rat(10), q1)),
                      sin(RDiv(RMul(RSub(q1, s), RMul(Rat(2), pi)), p))))

out_elastic(progress) ==
    LET p == Dec(3, 10)
        s == RDiv(p, Rat(4))
        q == progress
    IN IF q = One THEN One
       ELSE RAdd(RMul(pow(2, RMul(Rat(-10), q)),
                      sin(RDiv(RMul(RSub(q, s), RMul(Rat(2), pi)), p))),
                 One)

in_out_elastic(progress) ==
    LET p == RMul(Dec(3, 10), Dec(15, 10))
        s == RDiv(p, Rat(4))
        q == RMul(progress, Rat(2))
        q1 == RSub(q, One)
        wave == sin(RDiv(RMul(RSub(q1, s), RMul(Rat(2), pi)), p))
    IN IF q = Rat(2) THEN One
       ELSE IF RLess(q, One)
       THEN RMul(RNeg(Half), RMul(pow(2, RMul(Rat(10), q1)), wave))
       ELSE RAdd(RProd(<<pow(2, RMul(Rat(-10), q1)), wave, Half>>), One)

in_back(progress) ==
    RProd(<<progress, progress,
            RSub(RMul(RAdd(Dec(170158, 100000), One), progress),
                 Dec(170158, 100000))>>)

out_back(progress) ==
    LET p == RSub(progress, One)
    IN RAdd(RProd(<<p, p,
                    RAdd(RMul(RAdd(Dec(170158, 100000), One), p),
                         Dec(170158, 100000))>>),
            One)

in_out_back(progress) ==
    LET p == RMul(progress, Rat(2))
        s == RMul(Dec(170158, 100000), Dec(1525, 1000))
        p2 == RSub(p, Rat(2))
    IN IF RLess(p, One)
       THEN RMul(Half, RProd(<<p, p, RSub(RMul(RAdd(s, One), p), s)>>))
       ELSE RMul(Half,
                 RAdd(RProd(<<p2, p2, RAdd(RMul(RAdd(s, One), p2), s)>>),
                      Rat(2)))

_out_bounce_internal(t, d) ==
    LET p == RDiv(t, d)
        k == Dec(75625, 10000)
        w == Dec(275, 100)
        pa == RSub(p, RDiv(Dec(15, 10), w))
        pb == RSub(p, RDiv(Dec(225, 100), w))
        pc == RSub(p, RDiv(Dec(2625, 1000), w))
    IN IF RLess(p, RDiv(One, w))
       THEN RProd(<<k, p, p>>)
       ELSE IF RLess(p, RDiv(Rat(2), w))
       THEN RAdd(RProd(<<k, pa, pa>>), Dec(75, 100))
       ELSE IF RLess(p, RDiv(Dec(25, 10), w))
       THEN RAdd(RProd(<<k, pb, pb>>), Dec(9375, 10000))
       ELSE RAdd(RProd(<<k, pc, pc>>), Dec(984375, 1000000))

_in_bounce_internal(t, d) == RSub(One, _out_bounce_internal(RSub(d, t), d))

in_bounce(progress) == _in_bounce_internal(progress, One)

out_bounce(progress) == _out_bounce_internal(progress, One)

in_out_bounce(progress) ==
    LET p == RMul(progress, Rat(2))
    IN IF RLess(p, One)
       THEN RMul(_in_bounce_internal(p, One), Half)
       ELSE RAdd(RMul(_out_bounce_internal(RSub(p, One), One), Half), Half)

\* the names of the easing functions of AnimationTransition
Easings ==
    {"linear", "in_quad", "out_quad", "in_out_quad",
     "in_cubic", "out_cubic", "in_out_cubic",
     "in_quart", "out_quart", "in_out_quart",
     "in_quint", "out_quint", "in_out_quint",
     "in_sine", "out_sine", "in_out_sine",
     "in_expo", "out_expo", "in_out_expo",
     "in_circ", "out_circ", "in_out_circ",
     "in_elastic", "out_elastic", "in_out_elastic",
     "in_back", "out_back", "in_out_back",
     "in_bounce", "out_bounce", "in_out_bounce"}

\* getattr(AnimationTransition, name)(p), for every name of the catalog
Easing(name, p) ==
    CASE name = "linear" -> linear(p)
      [] name = "in_quad" -> in_quad(p)
      [] name = "out_quad" -> out_quad(p)
      [] name = "in_out_quad" -> in_out_quad(p)
      [] name = "in_cubic" -> in_cubic(p)
      [] name = "out_cubic" -> out_cubic(p)
      [] name = "in_out_cubic" -> in_out_cubic(p)
      [] name = "in_quart" -> in_quart(p)
      [] name = "out_quart" -> out_quart(p)
      [] name = "in_out_quart" -> in_out_quart(p)
      [] name = "in_quint" -> in_quint(p)
      [] name = "out_quint" -> out_quint(p)
      [] name = "in_out_quint" -> in_out_quint(p)
      [] name = "in_sine" -> in_sine(p)
      [] name = "out_sine" -> out_sine(p)
      [] name = "in_out_sine" -> in_out_sine(p)
      [] name = "in_expo" -> in_expo(p)
      [] name = "out_expo" -> out_expo(p)
      [] name = "in_out_expo" -> in_out_expo(p)
      [] name = "in_circ" -> in_circ(p)
      [] name = "out_circ" -> out_circ(p)
      [] name = "in_out_circ" -> in_out_circ(p)
      [] name = "in_elastic" -> in_elastic(p)
      [] name = "out_elastic" -> out_elastic(p)
      [] name = "in_out_elastic" -> in_out_elastic(p)
      [] name = "in_back" -> in_back(p)
      [] name = "out_back" -> out_back(p)
      [] name = "in_out_back" -> in_out_back(p)
      [] name = "in_bounce" -> in_bounce(p)
      [] name = "out_bounce" -> out_bounce(p)
      [] name = "in_out_bounce" -> in_out_bounce(p)

\* getattr(AnimationTransition, self._transition), then self._transition(p),
\* for the transitions the model's animations are constructed with
Transition(name, p) ==
    CASE name = "linear" -> linear(p)
      [] name = "in_quad" -> in_quad(p)

---------------------------------------------------------------------------
(* Animation *)

\* Animation.__init__ with the given keyword arguments
AnimationInit(duration, delay, round_values, transition, props) ==
    [_targets |-> None,
     _started |-> FALSE,
     _round_values |-> round_values,
     _duration |-> duration,
     _delay |-> delay,
     _transition |-> transition,
     _elapsed |-> 0,
     props |-> props,
     has_callback |-> FALSE,
     alive |-> FALSE]

\* ani.callback = my_function
SetCallback(self) == [self EXCEPT !.has_callback = TRUE]

\* group.add(ani): pygame.sprite.Sprite.alive() becomes true
Add(self) == [self EXCEPT !.alive = TRUE]

\* Gated with the delay taken one tick too short
GatedEarly(elapsed, delay) == elapsed < delay - 1

\* if self._elapsed < self._delay: return
Gated(elapsed, delay) == elapsed < delay

\* Elapsed with the accumulation lost: self._elapsed = dt
ElapsedReset(elapsed, dt) == dt

\* self._elapsed += dt
Elapsed(elapsed, dt) == elapsed + dt

\* Progress with the delay subtracted from the elapsed time
ProgressShifted(self) ==
    RMin(One, Norm(self._elapsed - self._delay, self._duration))

\* p = min(1., self._elapsed / self._duration), for a non-zero duration
Progress(self) == RMin(One, Norm(self._elapsed, self._duration))

\* Blend with the two weights exchanged
BlendSwapped(a, b, t) == RAdd(RMul(a, t), RMul(b, RSub(One, t)))

\* value = (a * (1. - t)) + (b * t)
Blend(a, b, t) == RAdd(RMul(a, RSub(One, t)), RMul(b, t))

\* IntRound without the round: int(value) drops the fraction
IntTruncate(v, py2) ==
    LET r == v[1] % v[2]
        q == (v[1] - r) \div v[2]
    IN IF r = 0 \/ v[1] >= 0 THEN Rat(q) ELSE Rat(q + 1)

\* int(round(value, 0)): halves round away from zero under Python 2 and to
\* the even neighbour under Python 3
IntRound(v, py2) ==
    LET r == v[1] % v[2]
        q == (v[1] - r) \div v[2]
    IN IF 2 * r < v[2] THEN Rat(q)
       ELSE IF 2 * r > v[2] THEN Rat(q + 1)
       ELSE IF py2 THEN (IF v[1] >= 0 THEN Rat(q + 1) ELSE Rat(q))
       ELSE (IF q % 2 = 0 THEN Rat(q) ELSE Rat(q + 1))

\* the value update writes for the captured pair values = (a, b)
Value(values, t, round_values, py2) ==
    LET value == Blend(values[1], Rat(values[2]), t)
    IN IF round_values THEN IntRound(value, py2) ELSE value

\* WriteProps blending from the attribute's current value instead of the
\* value captured by start
WritePropsFromCurrent(o, target, props, t, round_values, py2) ==
    [o EXCEPT ![target] =
        [name \in DOMAIN o[target] \cup DOMAIN props |->
            IF name \in DOMAIN props
            THEN Value(<<o[target][name], props[name][2]>>, t,
                       round_values, py2)
            ELSE o[target][name]]]

\* for name, values in props.items(): ... setattr(target, name, value)
WriteProps(o, target, props, t, round_values, py2) ==
    [o EXCEPT ![target] =
        [name \in DOMAIN o[target] \cup DOMAIN props |->
            IF name \in DOMAIN props
            THEN Value(props[name], t, round_values, py2)
            ELSE o[target][name]]]

\* for target, props in self._targets: ...
RECURSIVE WriteTargets(_, _, _, _, _)
WriteTargets(targets, o, t, round_values, py2) ==
    IF targets = <<>> THEN o
    ELSE WriteTargets(Tail(targets),
                      WriteProps(o, Head(targets).target, Head(targets).props,
                                 t, round_values, py2),
                      t, round_values, py2)

\* the (target, attribute) pairs the loop of update assigns
Written(targets) ==
    {<<targets[i].target, name>> :
        i \in DOMAIN targets, name \in {"x", "y"}} \cap
    UNION {{<<targets[i].target, name>> : name \in DOMAIN targets[i].props} :
        i \in DOMAIN targets}

\* Seen with the callback invoked before the bindings are cleared and the
\* instance killed
SeenBeforeClear(before, after, o) ==
    [_targets |-> before._targets, alive |-> before.alive, obj |-> o]

\* self.callback() is the last statement of update: the callback finds the
\* instance as self._targets = None and self.kill() left it (after), not as
\* it was before them (before), and the objects as the loop left them
Seen(before, after, o) ==
    [_targets |-> after._targets, alive |-> after.alive, obj |-> o]

\* Animation.update(dt): the instance, the objects and the outcome of the call
AnimationUpdate(a, o, dt, py2) ==
    LET elapsed == Elapsed(a._elapsed, dt)
        a1 == [a EXCEPT !._elapsed = elapsed]
        out == [op |-> "update", dt |-> dt, sprite |-> "A", err |-> "none",
                p |-> Zero, fired |-> FALSE, pre |-> a._targets, wrote |-> {},
                sprites |-> {}, seen |-> NoSeen]
    IN IF Gated(elapsed, a._delay)
       THEN [ani |-> a1, obj |-> o, ret |-> out]
       ELSE IF a._duration = 0
       THEN [ani |-> a1, obj |-> o,
             ret |-> [out EXCEPT !.err = "ZeroDivisionError"]]
       ELSE LET p == Progress(a1)
                t == Transition(a._transition, p)
            IN IF a._targets = None
               THEN [ani |-> a1, obj |-> o,
                     ret |-> [out EXCEPT !.err = "TypeError", !.p = p]]
               ELSE LET o2 == WriteTargets(a._targets, o, t,
                                           a._round_values, py2)
                        w == Written(a._targets)
                    IN IF RGeq(p, One)
                       THEN LET a2 == [a1 EXCEPT !._targets = None,
                                                 !.alive = FALSE]
                            IN [ani |-> a2,
                                obj |-> o2,
                                ret |-> [out EXCEPT
                                           !.p = p, !.wrote = w,
                                           !.fired = a.has_callback,
                                           !.seen = IF a.has_callback
                                                    THEN Seen(a1, a2, o2)
                                                    ELSE NoSeen]]
                       ELSE [ani |-> a1, obj |-> o2,
                             ret |-> [out EXCEPT !.p = p, !.wrote = w]]

\* the attribute names start reads before getattr raises, when the items of
\* self.props are visited in the given order
RECURSIVE Captured(_, _)
Captured(order, have) ==
    IF order = <<>> \/ Head(order) \notin have THEN {}
    ELSE {Head(order)} \cup Captured(Tail(order), have)

\* the orders in which a dict with the given keys can be iterated
Orders(keys) ==
    {s \in [1..Cardinality(keys) -> keys] :
        \A i, j \in 1..Cardinality(keys) : i # j => s[i] # s[j]}

\* AnimationStart that also restarts the clock: self._elapsed = 0.
AnimationStartResets(a, o, sprite, order) ==
    LET names == Captured(order, DOMAIN o[sprite])
        props == [name \in names |-> <<o[sprite][name], a.props[name]>>]
        failed == names # DOMAIN a.props
    IN [ani |-> [a EXCEPT !._targets = <<[target |-> sprite, props |-> props]>>,
                          !._elapsed = 0],
        ret |-> [op |-> "start", dt |-> 0, sprite |-> sprite,
                 err |-> IF failed THEN "AttributeError" ELSE "none",
                 p |-> Zero, fired |-> FALSE, pre |-> a._targets,
                 wrote |-> {}, sprites |-> {}, seen |-> NoSeen]]

\* Animation.start(sprite): the instance and the outcome of the call
AnimationStart(a, o, sprite, order) ==
    LET names == Captured(order, DOMAIN o[sprite])
        props == [name \in names |-> <<o[sprite][name], a.props[name]>>]
        failed == names # DOMAIN a.props
    IN [ani |-> [a EXCEPT !._targets = <<[target |-> sprite, props |-> props]>>],
        ret |-> [op |-> "start", dt |-> 0, sprite |-> sprite,
                 err |-> IF failed THEN "AttributeError" ELSE "none",
                 p |-> Zero, fired |-> FALSE, pre |-> a._targets,
                 wrote |-> {}, sprites |-> {}, seen |-> NoSeen]]

---------------------------------------------------------------------------
(* The Animation and its callers. *)

InitAnimation ==
    /\ PY2 \in BOOLEAN
    /\ \E duration \in 0..MaxDuration, delay \in 0..MaxDelay,
          round_values \in BOOLEAN, transition \in Transitions,
          props \in PropsChoices :
          \/ ani = Add(AnimationInit(duration, delay, round_values,
                                     transition, props))
          \/ ani = Add(SetCallback(AnimationInit(duration, delay, round_values,
                                                 transition, props)))
    /\ obj = ObjInit
    /\ calls = 0
    /\ ret = NoRet
    /\ snap = [ani |-> ani, obj |-> obj, calls |-> 0, sum |-> 0]
    /\ nStart = 0
    /\ started = {}
    /\ done = FALSE

Start(sprite) ==
    /\ nStart < MaxStarts
    /\ \E order \in Orders(DOMAIN ani.props) :
          LET r == AnimationStart(ani, obj, sprite, order)
          IN /\ ani' = r.ani
             /\ ret' = r.ret
             /\ snap' = [ani |-> r.ani, obj |-> obj, calls |-> calls,
                         sum |-> 0]
             /\ started' = IF r.ret.err = "none"
                           THEN started \cup {sprite} ELSE started
    /\ nStart' = nStart + 1
    /\ UNCHANGED <<PY2, obj, calls, done>>

Update(dt) ==
    /\ ani._elapsed + dt <= MaxElapsed
    /\ LET r == AnimationUpdate(ani, obj, dt, PY2)
       IN /\ ani' = r.ani
          /\ obj' = r.obj
          /\ ret' = [r.ret EXCEPT !.sprites = started]
          /\ calls' = IF r.ret.fired THEN calls + 1 ELSE calls
          /\ LET completed == r.ret.err = "none" /\ ani._targets # None
                               /\ r.ani._targets = None
             IN /\ done' = (done \/ completed)
                /\ started' = IF completed THEN {} ELSE started
    /\ snap' = [snap EXCEPT !.sum = @ + dt]
    /\ UNCHANGED <<PY2, nStart>>

NextAnimation ==
    \/ \E sprite \in Objs : Start(sprite)
    \/ \E dt \in 0..MaxDt : Update(dt)

\* the value other code assigns
PokeValue == Rat(7)

\* poked: the number of writes (n), the last one (sprite, name) and whether
\* the attribute was bound by the animation when it was written (bound)
NoPoke == [n |-> 0, sprite |-> "A", name |-> "x", bound |-> FALSE]

\* other code assigns an attribute of a target between two calls:
\* sprite.name = PokeValue
Poke(sprite, name) ==
    /\ poked.n < MaxPokes
    /\ name \in DOMAIN obj[sprite]
    /\ obj' = [obj EXCEPT ![sprite][name] = PokeValue]
    /\ poked' = [n |-> poked.n + 1, sprite |-> sprite, name |-> name,
                 bound |-> <<sprite, name>> \in Written(ani._targets)]
    /\ ret' = [NoRet EXCEPT !.op = "write", !.sprite = sprite]
    /\ UNCHANGED <<PY2, ani, calls, snap, nStart, started, done>>

---------------------------------------------------------------------------
(* Task *)

\* Task.__init__(callback, interval, loops), the assertions holding
TaskInit(interval, loops) ==
    [interval |-> interval,
     loops |-> loops,
     _timer |-> 0,
     _loops |-> loops,
     alive |-> FALSE]

\* no Task object exists: the fields stand for nothing and are read by no
\* action, tnew.made tells whether task is an object
NoTask ==
    [interval |-> 0, loops |-> 0, _timer |-> 0, _loops |-> 0, alive |-> FALSE]

\* LoopsOk with -1 refused
LoopsOkStrict(loops) == loops > -1

\* assert (loops >= -1)
LoopsOk(loops) == loops >= -1

\* Task(callback, interval, loops): the assertions of __init__ come first, a
\* failed one leaves no object
TaskNew(callable, interval, loops) ==
    IF callable /\ LoopsOk(loops)
    THEN [made |-> TRUE, err |-> "none", task |-> TaskInit(interval, loops)]
    ELSE [made |-> FALSE, err |-> "AssertionError", task |-> NoTask]

\* tnew: the constructor call (op, callable, loops) and its outcome
NoTaskNew == [op |-> "none", callable |-> TRUE, loops |-> 0, made |-> FALSE,
              err |-> "none"]

Constructed(loops) == [op |-> "new", callable |-> TRUE, loops |-> loops,
                       made |-> TRUE, err |-> "none"]

\* if self._timer >= self.interval:
Due(timer, interval) == timer >= interval

\* if not self._loops == -1:
Counted(loops) == loops # -1

\* TaskUpdate with the kill test moved out of the branch of counted tasks
TaskUpdateKillsInfinite(t, delta) ==
    LET timer == t._timer + delta
    IN IF Due(timer, t.interval)
       THEN LET t1 == [t EXCEPT !._timer = timer - t.interval]
                t2 == IF Counted(t._loops)
                      THEN [t1 EXCEPT !._loops = t._loops - 1] ELSE t1
            IN [task |-> [t2 EXCEPT !.alive = IF t2._loops <= 0
                                              THEN FALSE ELSE t.alive],
                fired |-> TRUE]
       ELSE [task |-> [t EXCEPT !._timer = timer], fired |-> FALSE]

\* Task.update(delta): the instance and whether the callback was invoked
TaskUpdate(t, delta) ==
    LET timer == t._timer + delta
    IN IF Due(timer, t.interval)
       THEN LET t1 == [t EXCEPT !._timer = timer - t.interval]
            IN IF Counted(t._loops)
               THEN [task |-> [t1 EXCEPT !._loops = t._loops - 1,
                                         !.alive = IF t._loops - 1 <= 0
                                                   THEN FALSE ELSE t.alive],
                     fired |-> TRUE]
               ELSE [task |-> t1, fired |-> TRUE]
       ELSE [task |-> [t EXCEPT !._timer = timer], fired |-> FALSE]

\* tret: the call (op, delta), self._timer when it was entered (pre), whether
\* it invoked the callback (fired) and the number of update calls so far (n)
NoTaskRet == [op |-> "none", delta |-> 0, pre |-> 0, fired |-> FALSE, n |-> 0]

InitTask ==
    /\ \E interval \in 0..MaxInterval, loops \in -1..MaxLoops :
          /\ task = Add(TaskNew(TRUE, interval, loops).task)
          /\ tnew = Constructed(loops)
    /\ tcalls = 0
    /\ tret = NoTaskRet

\* group.add(Task(callback, interval, loops)), callback callable or not
NewTask(callable, interval, loops) ==
    /\ tnew.op = "none"
    /\ LET r == TaskNew(callable, interval, loops)
       IN /\ task' = IF r.made THEN Add(r.task) ELSE r.task
          /\ tnew' = [op |-> "new", callable |-> callable, loops |-> loops,
                      made |-> r.made, err |-> r.err]
    /\ UNCHANGED <<tcalls, tret>>

UpdateTask(delta) ==
    /\ tnew.made
    /\ tret.n < MaxTaskUpdates
    /\ LET r == TaskUpdate(task, delta)
       IN /\ task' = r.task
          /\ tcalls' = IF r.fired THEN tcalls + 1 ELSE tcalls
          /\ tret' = [op |-> "update", delta |-> delta, pre |-> task._timer,
                      fired |-> r.fired, n |-> tret.n + 1]
    /\ UNCHANGED tnew

NextTask ==
    \E delta \in 0..MaxDelta : UpdateTask(delta)

\* update calls without end: the two counters of calls stop at
\* MaxTaskUpdates, and no call is made that leaves _timer above MaxTimer
Counter(n) == IF n < MaxTaskUpdates THEN n + 1 ELSE n

UpdateTaskLive(delta) ==
    /\ tnew.made
    /\ LET r == TaskUpdate(task, delta)
       IN /\ r.task._timer <= MaxTimer
          /\ task' = r.task
          /\ tcalls' = IF r.fired THEN Counter(tcalls) ELSE tcalls
          /\ tret' = [op |-> "update", delta |-> delta, pre |-> task._timer,
                      fired |-> r.fired, n |-> Counter(tret.n)]
    /\ UNCHANGED tnew

NextTaskLive ==
    \E delta \in 0..MaxDelta : UpdateTaskLive(delta)

\* an update call that time has passed before
TimePasses ==
    \E delta \in 1..MaxDelta : UpdateTaskLive(delta)

---------------------------------------------------------------------------
(* Spec: one Animation, constructed, given a callback or not and added to  *)
(* a sprite group, and the calls made on it; the Task is left alone.       *)
Init ==
    /\ InitAnimation
    /\ task = Add(TaskInit(0, 1))
    /\ tcalls = 0
    /\ tret = NoTaskRet
    /\ tnew = Constructed(1)
    /\ poked = NoPoke
    /\ ease = NoEase

Next == NextAnimation /\ UNCHANGED <<taskVars, poked, ease>>

Spec == Init /\ [][Next]_vars

(* SpecTask: one Task, constructed and added to a sprite group, and the    *)
(* update calls made on it, by the group or directly; the Animation is     *)
(* left alone.                                                             *)
\* an Animation that no call is made on
AnimationIdle ==
    /\ PY2 = FALSE
    /\ ani = Add(AnimationInit(1, 0, FALSE, "linear", [x |-> 3]))
    /\ obj = ObjInit
    /\ calls = 0
    /\ ret = NoRet
    /\ snap = [ani |-> ani, obj |-> obj, calls |-> 0, sum |-> 0]
    /\ nStart = 0
    /\ started = {}
    /\ done = FALSE
    /\ poked = NoPoke

TaskSpecInit ==
    /\ InitTask
    /\ AnimationIdle
    /\ ease = NoEase

TaskSpecNext == NextTask /\ UNCHANGED <<aniVars, ease>>

(* SpecWrite: as Spec, with other code writing attributes of the targets   *)
(* between the calls; the Animation animates x and y without rounding, has *)
(* a positive duration, no delay and no callback.                           *)
WriteInit ==
    /\ Init
    /\ ~PY2
    /\ ~ani.has_callback
    /\ ~ani._round_values
    /\ ani._duration > 0
    /\ ani._delay = 0
    /\ ani.props = [x |-> 3, y |-> -2]

WriteNext ==
    /\ \/ NextAnimation /\ UNCHANGED poked
       \/ \E sprite \in Objs, name \in {"x", "y"} : Poke(sprite, name)
    /\ UNCHANGED <<taskVars, ease>>

SpecWrite == WriteInit /\ [][WriteNext]_vars

SpecTask == TaskSpecInit /\ [][TaskSpecNext]_vars

(* SpecTaskLive: the Task is updated without end, and update calls with a  *)
(* positive delta keep coming.                                             *)
TaskLiveNext == NextTaskLive /\ UNCHANGED <<aniVars, ease>>

SpecTaskLive ==
    /\ TaskSpecInit
    /\ [][TaskLiveNext]_vars
    /\ WF_vars(TimePasses /\ UNCHANGED <<aniVars, ease>>)

(* SpecTaskNew: the Task is first constructed, with any callback, interval *)
(* and loops, and then updated.                                            *)
TaskNewInit ==
    /\ task = NoTask
    /\ tcalls = 0
    /\ tret = NoTaskRet
    /\ tnew = NoTaskNew
    /\ AnimationIdle
    /\ ease = NoEase

TaskNewNext ==
    /\ \/ \E callable \in BOOLEAN, interval \in 0..MaxInterval,
             loops \in -(MaxLoops + 1)..MaxLoops :
             NewTask(callable, interval, loops)
       \/ NextTask
    /\ UNCHANGED <<aniVars, ease>>

SpecTaskNew == TaskNewInit /\ [][TaskNewNext]_vars

(* SpecEase: one call of one easing function of AnimationTransition, at    *)
(* one of the progress values the model can evaluate it at; the Animation  *)
(* and the Task are left alone.                                            *)
\* the progress values an easing function is called with: the two ends and
\* the middle, the middle left out where the function's value there is
\* irrational
EaseArgs(name) ==
    IF name \in {"in_sine", "out_sine", "in_circ", "out_circ"}
    THEN {Zero, One}
    ELSE {Zero, Half, One}

\* a Task that no call is made on
TaskIdle ==
    /\ task = Add(TaskInit(0, 1))
    /\ tcalls = 0
    /\ tret = NoTaskRet
    /\ tnew = Constructed(1)

EaseInit ==
    /\ \E name \in Easings : \E progress \in EaseArgs(name) :
           ease = [name |-> name, progress |-> progress,
                   pc |-> "call", value |-> Zero]
    /\ AnimationIdle
    /\ TaskIdle

\* getattr(AnimationTransition, name)(progress)
EaseCall ==
    /\ ease.pc = "call"
    /\ ease' = [ease EXCEPT !.pc = "return",
                            !.value = Easing(ease.name, ease.progress)]

EaseNext == EaseCall /\ UNCHANGED <<aniVars, taskVars>>

SpecEase == EaseInit /\ [][EaseNext]_vars

---------------------------------------------------------------------------
(* Properties of the Animation, checked under Spec. *)

\* the last call was an update that got past the delay test with targets
\* bound and raised nothing
Interpolated ==
    /\ ret.op = "update"
    /\ ret.err = "none"
    /\ ret.pre # None
    /\ ~(ani._elapsed < ani._delay)

\* C1: whatever start and update calls are made, the completion callback is
\* invoked at most once, and only by an update whose progress is 1.
C1_CallbackOnce ==
    /\ calls <= 1
    /\ ret.fired => ret.p = One

\* C2: update on an animation (of positive duration) that was never started
\* raises nothing, changes no object and invokes no callback.
C2_UnboundUpdateInert ==
    (nStart = 0 /\ ret.op = "update" /\ ani._duration > 0) =>
        (ret.err = "none" /\ obj = ObjInit /\ calls = 0)

\* C3: once an update has completed the animation, no later call binds a
\* target again or writes an attribute.
C3_CompleteTerminal ==
    [][done => (ani'._targets = None /\ obj' = obj)]_vars

\* C4: an update that gets past the delay writes every animated attribute of
\* every sprite start succeeded on since the last completion.
C4_StartAppends ==
    (ret.op = "update" /\ ret.err = "none" /\ ~(ani._elapsed < ani._delay)) =>
        \A sprite \in ret.sprites : \A name \in DOMAIN ani.props :
            <<sprite, name>> \in ret.wrote

\* C5: an update of a started animation that leaves the elapsed time below
\* the delay writes no attribute, keeps the bindings and invokes no callback.
C5_NoWriteBeforeDelay ==
    [][(ret'.op = "update" /\ ani._targets # None
        /\ ani'._elapsed < ani'._delay) =>
            (obj' = obj /\ ani'._targets = ani._targets /\ calls' = calls)]_vars

C5_Witness ==
    /\ ret.op = "update"
    /\ ret.dt > 0
    /\ ret.pre # None
    /\ ani._targets # None
    /\ ani._elapsed < ani._delay

\* C6: with a positive duration D, no delay, no rounding and linear easing,
\* update(D) on a started animation leaves every animated attribute of the
\* target at exactly its end value.
C6_EndValueAtDuration ==
    (/\ Interpolated
     /\ ani._duration > 0
     /\ ret.dt = ani._duration
     /\ ani._delay = 0
     /\ ~ani._round_values
     /\ ani._transition = "linear") =>
        \A i \in DOMAIN ret.pre : \A name \in DOMAIN ret.pre[i].props :
            obj[ret.pre[i].target][name] = Rat(ani.props[name])

C6_Witness ==
    /\ Interpolated
    /\ ani._duration > 0
    /\ ret.dt = ani._duration
    /\ ani._delay = 0
    /\ ~ani._round_values
    /\ ani._transition = "linear"
    /\ ani._elapsed = ani._duration
    /\ DOMAIN ret.pre[1].props = {"x", "y"}
    /\ ret.pre[1].props["y"][1] # Zero
    /\ obj[ret.pre[1].target] = [x |-> Rat(3), y |-> Rat(-2)]

\* C7: when the update calls made since start add up to the duration, the
\* targets, the bindings and the elapsed time are those a single
\* update(duration) made right after start leaves, and the callback has
\* been invoked as often.
C7_SplitEqualsSingle ==
    (snap.ani._targets # None /\ ret.op = "update"
     /\ snap.sum = ani._duration) =>
        LET r == AnimationUpdate(snap.ani, snap.obj, ani._duration, PY2)
        IN /\ obj = r.obj
           /\ ani._targets = r.ani._targets
           /\ ani._elapsed = r.ani._elapsed
           /\ calls - snap.calls = IF r.ret.fired THEN 1 ELSE 0

C7_Witness ==
    /\ snap.ani._targets # None
    /\ ret.op = "update"
    /\ snap.sum = ani._duration
    /\ ret.dt > 0
    /\ ret.dt < snap.sum
    /\ ani._targets = None
    /\ obj # snap.obj
    /\ calls = snap.calls + 1
    /\ ani.has_callback

\* C8: an update that gets past the delay uses p = min(1, elapsed/duration),
\* the delay not subtracted; it completes the animation exactly when elapsed
\* has reached the duration; under linear easing without rounding the value
\* it writes is a + (b - a) * p.
C8_ProgressIgnoresDelay ==
    (Interpolated /\ ani._duration > 0) =>
        LET D == ani._duration
            m == IF ani._elapsed < D THEN ani._elapsed ELSE D
        IN /\ ret.p[1] * D = m * ret.p[2]
           /\ (ani._targets = None) <=> (ani._elapsed >= D)
           /\ (ani._transition = "linear" /\ ~ani._round_values) =>
                 \A i \in DOMAIN ret.pre : \A name \in DOMAIN ret.pre[i].props :
                     LET v == obj[ret.pre[i].target][name]
                         a == ret.pre[i].props[name][1]
                         b == ret.pre[i].props[name][2]
                     IN v[1] * a[2] * D =
                            v[2] * (a[1] * (D - m) + b * m * a[2])

C8_Witness ==
    /\ Interpolated
    /\ ani._delay > 0
    /\ ani._elapsed = ret.dt
    /\ RLess(Zero, ret.p)
    /\ RLess(ret.p, One)
    /\ ani._transition = "linear"
    /\ ~ani._round_values
    /\ obj["A"]["x"] = <<3, 2>>

\* C9: with duration 0, an update of a started animation that gets past the
\* delay raises nothing and completes the animation, end values written.
C9_ZeroDurationCompletes ==
    (/\ ani._duration = 0
     /\ ret.op = "update"
     /\ ret.pre # None
     /\ ~(ani._elapsed < ani._delay)) =>
        /\ ret.err = "none"
        /\ ani._targets = None
        /\ \A i \in DOMAIN ret.pre : \A name \in DOMAIN ret.pre[i].props :
               obj[ret.pre[i].target][name] = Rat(ani.props[name])

\* C14: with round_values every value an update writes is an integer at most
\* 1/2 away from start*(1-t) + end*t; without it the blend itself is
\* written.
C14_RoundedToNearest ==
    Interpolated =>
        \A i \in DOMAIN ret.pre : \A name \in DOMAIN ret.pre[i].props :
            LET v == obj[ret.pre[i].target][name]
                values == ret.pre[i].props[name]
                exact == Blend(values[1], Rat(values[2]),
                               Transition(ani._transition, ret.p))
            IN IF ani._round_values
               THEN /\ v[2] = 1
                    /\ 2 * Abs(v[1] * exact[2] - exact[1]) <= exact[2]
               ELSE v = exact

C14_Witness ==
    /\ Interpolated
    /\ ani._round_values
    /\ ani._transition = "in_quad"
    /\ ret.p = <<1, 2>>
    /\ ret.pre[1].target = "A"
    /\ ret.pre[1].props["x"] = <<Zero, 3>>
    /\ obj["A"]["x"] = Rat(1)

\* C16: the callback is invoked inside the update that completes the
\* animation, and finds the bound targets at their end values, the bindings
\* cleared and the instance out of its groups.
C16_CallbackAfterCompletion ==
    ret.fired =>
        /\ ret.op = "update"
        /\ ret.p = One
        /\ ret.seen._targets = None
        /\ ~ret.seen.alive
        /\ \A i \in DOMAIN ret.pre : \A name \in DOMAIN ret.pre[i].props :
               ret.seen.obj[ret.pre[i].target][name] =
                   Rat(ret.pre[i].props[name][2])

C16_Witness ==
    /\ ret.fired
    /\ ret.pre # None
    /\ DOMAIN ret.pre[1].props = {"x", "y"}
    /\ ret.seen.obj[ret.pre[1].target] = [x |-> Rat(3), y |-> Rat(-2)]
    /\ ret.seen.obj # ObjInit

\* C18: a start call that raises AttributeError leaves the bindings as they
\* were before the call.
C18_FailedStartWithoutEffect ==
    (ret.op = "start" /\ ret.err = "AttributeError") =>
        ani._targets = ret.pre

\* C20: a start call changes nothing but the bindings: the objects, the
\* elapsed time, the duration, the delay, the easing and the callback count
\* are as before.
C20_StartOnlyBinds ==
    [][nStart' # nStart =>
          /\ obj' = obj
          /\ calls' = calls
          /\ ani' = [ani EXCEPT !._targets = ani'._targets]]_vars

\* an update interpolates although less time than the delay has passed since
\* start: the time accumulated before start counts
C20_Witness ==
    /\ Interpolated
    /\ snap.ani._elapsed > 0
    /\ snap.sum < ani._delay
    /\ ani._elapsed = snap.ani._elapsed + snap.sum

---------------------------------------------------------------------------
(* Properties of the Animation among other writers, checked under          *)
(* SpecWrite.                                                              *)

\* C17: after an update that gets past the delay, every bound attribute holds
\* the blend of the pair captured by start at the eased progress of that
\* update, whatever the attribute or any other attribute held before.
C17_ValueFromCapturedPair ==
    Interpolated =>
        \A i \in DOMAIN ret.pre : \A name \in DOMAIN ret.pre[i].props :
            LET values == ret.pre[i].props[name]
                t == Transition(ani._transition, ret.p)
                value == RAdd(RMul(values[1], RSub(One, t)),
                              RMul(Rat(values[2]), t))
            IN obj[ret.pre[i].target][name] = value

\* other code wrote a bound attribute after start, and the update after it
\* has overwritten the value
C17_Witness ==
    /\ Interpolated
    /\ poked.n > 0
    /\ poked.bound
    /\ <<poked.sprite, poked.name>> \in ret.wrote
    /\ RLess(ret.p, One)
    /\ obj[poked.sprite][poked.name] # PokeValue
    /\ \E i \in DOMAIN ret.pre : \E name \in DOMAIN ret.pre[i].props :
           ret.pre[i].props[name][1] # PokeValue

---------------------------------------------------------------------------
(* Properties of the Task, checked under SpecTask. *)

\* C10: a task constructed with loops = n >= 1 never invokes its callback
\* more than n times, and has left its groups once it has invoked it n times.
C10_FiresLoopsTimes ==
    task.loops >= 1 =>
        /\ tcalls <= task.loops
        /\ (tret.fired /\ tcalls = task.loops) => ~task.alive

\* C11: an update of an infinite task with a positive interval invokes the
\* callback once per whole interval held by the accumulated timer and leaves
\* the remainder, which is below the interval, in the timer.
C11_CatchUpFiring ==
    (tret.op = "update" /\ task.interval > 0 /\ task.loops = -1) =>
        LET total == tret.pre + tret.delta
        IN /\ task._timer = total % task.interval
           /\ task._timer < task.interval
           /\ (IF tret.fired THEN 1 ELSE 0) = total \div task.interval

\* C19: the remaining-loop counter of a task constructed with finite
\* loops = n >= 0 stays within 0..n, and its callback is invoked at most n
\* times.
C19_LoopsWithinRange ==
    task.loops >= 0 =>
        /\ task._loops \in 0..task.loops
        /\ tcalls <= task.loops

---------------------------------------------------------------------------
(* Properties of a Task updated without end, checked under SpecTaskLive. *)

\* C12: a task constructed with loops = -1 keeps _loops = -1 and stays in
\* its groups for ever, and invokes its callback again and again.
C12_InfiniteTaskFiresForever ==
    (task.loops = -1) =>
        /\ [](task._loops = -1 /\ task.alive)
        /\ []<>tret.fired

C12_Witness ==
    /\ task.loops = -1
    /\ task.interval > 0
    /\ task._loops = -1
    /\ task.alive
    /\ tcalls >= 3
    /\ tret.fired

---------------------------------------------------------------------------
(* Properties of the construction of a Task, checked under SpecTaskNew. *)

\* C13: constructing a Task yields an object exactly when the callback is
\* callable and loops >= -1; otherwise the call raises, no object exists and
\* nothing has been invoked.
C13_ConstructionFailsFast ==
    tnew.op = "new" =>
        /\ tnew.made <=> (tnew.callable /\ tnew.loops >= -1)
        /\ ~tnew.made =>
              /\ tnew.err = "AssertionError"
              /\ task = NoTask
              /\ tcalls = 0
              /\ tret.op = "none"

C13_Witness ==
    /\ tnew.op = "new"
    /\ tnew.callable
    /\ tnew.loops < -1
    /\ ~tnew.made

---------------------------------------------------------------------------
(* Claims checked under SpecEase *)

\* C15: every easing function returns exactly 0 at progress 0 and exactly 1
\* at progress 1, the elastic and back families included.
C15_ExactAtBoundaries ==
    ease.pc = "return" =>
        /\ ease.progress = Zero => ease.value = Zero
        /\ ease.progress = One => ease.value = One

====
